---- MODULE Spec2Model ----
(***************************************************************************)
(* Model of src/backends/request/client.js: the Request transport of       *)
(* kubernetes-client.  One Request object (a connection) serves several     *)
(* logical calls of http(); each call walks through _request (first         *)
(* request, optional refreshAuth and re-issued request) or through          *)
(* upgradeRequest (a WebSocket session that decodes channel frames).        *)
(***************************************************************************)
EXTENDS Integers, Sequences, FiniteSets, TLC

(***************************************************************************)
(* Bounds of the model.                                                    *)
(***************************************************************************)
\* number of logical calls issued through the one Request object
NumCalls == 2
\* most frames one WebSocket session receives
MaxFrames == 2

Calls == 1..NumCalls

(***************************************************************************)
(* JavaScript values.  A value carries its type tag so that the tests the  *)
(* code makes on values of unknown type (body && ..., body.message || body)*)
(* can be evaluated.  Frame data and decoded messages are sequences of    *)
(* character codes; the text of response bodies is kept whole.             *)
(***************************************************************************)
Undefined == [t |-> "undefined"]
Str(s) == [t |-> "string", s |-> s]
Obj(f) == [t |-> "object", f |-> f]

\* JavaScript truthiness of a value
Truthy(v) ==
    CASE v.t = "undefined" -> FALSE
      [] v.t = "string"    -> v.s # ""
      [] OTHER             -> TRUE

\* v[name]: a property read; undefined on a string or a missing property
\* (a read on undefined itself throws and is handled by the caller)
Prop(v, name) ==
    IF v.t = "object" /\ name \in DOMAIN v.f THEN v.f[name] ELSE Undefined

\* a number inside a response body
Num(n) == [t |-> "number", n |-> n]

(***************************************************************************)
(* execChannels (line 33) and the frame decoder of the 'message' handler   *)
(* (lines 75-79).                                                          *)
(***************************************************************************)
execChannels == <<"stdin", "stdout", "stderr", "error", "resize">>

\* execChannels[key] where key is the text of msg.slice(0, 1): a property
\* read on an array.  The key names an element only when it is the decimal
\* text of an index, that is one of the characters '0'..'4' (codes 48..52);
\* every other one-character key, and the empty key, reads undefined.
ChannelOf_ByteValue(key) ==
    IF Len(key) = 1 /\ key[1] < Len(execChannels)
    THEN Str(execChannels[key[1] + 1])
    ELSE Undefined

ChannelOf(key) ==
    IF Len(key) = 1 /\ key[1] >= 48 /\ key[1] - 48 < Len(execChannels)
    THEN Str(execChannels[key[1] - 48 + 1])
    ELSE Undefined

\* msg.slice(a): the elements of msg from zero-based position a on
Slice(msg, a) == SubSeq(msg, a + 1, Len(msg))
\* msg.slice(0, 1)
Slice01(msg) == SubSeq(msg, 1, IF Len(msg) >= 1 THEN 1 ELSE 0)

\* value of one base64 character, -1 for a character outside the alphabet
B64Val(ch) ==
    CASE ch >= 65 /\ ch <= 90  -> ch - 65
      [] ch >= 97 /\ ch <= 122 -> ch - 71
      [] ch >= 48 /\ ch <= 57  -> ch + 4
      [] ch = 43 \/ ch = 45    -> 62
      [] ch = 47 \/ ch = 95    -> 63
      [] OTHER                 -> -1

\* the characters before the first '=' (code 61): Node stops decoding there
RECURSIVE B64Data(_)
B64Data(s) ==
    IF s = <<>> \/ Head(s) = 61 THEN <<>>
    ELSE IF B64Val(Head(s)) < 0 THEN B64Data(Tail(s))
    ELSE <<B64Val(Head(s))>> \o B64Data(Tail(s))

\* Buffer.from(text, 'base64'): the 6-bit values of the characters are laid
\* end to end and cut into bytes; trailing bits that fill no byte are dropped
Base64Decode(s) ==
    LET v == B64Data(s)
        n == (Len(v) * 6) \div 8
        ByteAt(k) ==
            LET i   == (8 * k) \div 6
                off == (8 * k) % 6
                two == v[i + 1] * 64 + v[i + 2]
            IN  (two \div (2 ^ (4 - off))) % 256
    IN  [k \in 1..n |-> ByteAt(k - 1)]

\* buf.toString('ascii'): every byte loses its high bit
ToAscii(bytes) == [k \in 1..Len(bytes) |-> bytes[k] % 128]

\* Buffer.from(x, 'base64') for the two things ws hands to the handler: a
\* string is decoded; a Buffer is copied and the encoding argument is ignored
BufferFrom(msg, rest) ==
    IF msg.binary THEN rest ELSE Base64Decode(rest)

\* the 'message' handler's two locals (lines 76-77)
Decode(msg) ==
    [channel |-> ChannelOf(Slice01(msg.data)),
     message |-> ToAscii(BufferFrom(msg, Slice(msg.data, 1)))]

\* messages.map(({ message }) => message).join('') (line 88)
RECURSIVE JoinMessages(_)
JoinMessages(messages) ==
    IF messages = <<>> THEN <<>>
    ELSE Head(messages).message \o JoinMessages(Tail(messages))

(***************************************************************************)
(* The upgrade sentinel and the upgraded socket (lines 50-94).             *)
(***************************************************************************)
isUpgradeRequired(body) ==
    /\ Prop(body, "status") = Str("Failure")
    /\ Prop(body, "code") = Num(400)
    /\ Prop(body, "message") = Str("Upgrade request required")

\* qs.stringify(options.qs, { indices: false }): one key=value pair per
\* value, an array-valued parameter repeating its key
RECURSIVE stringify(_)
stringify(qs) ==
    IF qs = <<>> THEN <<>>
    ELSE [i \in 1..Len(Head(qs).value) |->
             [k |-> Head(qs).key, v |-> Head(qs).value[i]]]
         \o stringify(Tail(qs))

\* urljoin(options.baseUrl, options.uri, `?${queryParams}`)
wsUrl(options) ==
    [base |-> options.baseUrl, path |-> options.uri, query |-> stringify(options.qs)]

\* `Bearer ${options.auth?.bearer}`: a missing credential prints as the
\* text "undefined"
authorization(options) ==
    [scheme |-> "Bearer",
     token  |-> IF options.auth = Undefined THEN Str("undefined") ELSE Num(options.auth.bearer)]

(***************************************************************************)
(* State.                                                                  *)
(***************************************************************************)
VARIABLES
    requestOptions,   \* this.requestOptions: baseUrl and the stored credential auth
    authProvider,     \* this.authProvider: {type}, type null when no refresh is configured
    calls             \* per logical call of http(): its options object, position and promise

vars == <<requestOptions, authProvider, calls>>

\* a credential object {bearer}
Auth(token) == [t |-> "auth", bearer |-> token]

\* the three shapes of convertedOptions.auth the constructor distinguishes
ConvertedAuths ==
    { Undefined,
      Auth(0),
      [t |-> "authWithProvider", request |-> Auth(0), provider |-> [type |-> Str("oidc")]] }

\* constructor (lines 109-143)
Constructor(convertedOptions) ==
    [requestOptions |->
        [baseUrl |-> convertedOptions.url,
         auth |-> IF convertedOptions.auth = Undefined THEN Undefined
                  ELSE IF convertedOptions.auth.t = "authWithProvider"
                       THEN convertedOptions.auth.request
                       ELSE convertedOptions.auth],
     authProvider |->
        IF convertedOptions.auth # Undefined /\ convertedOptions.auth.t = "authWithProvider"
        THEN convertedOptions.auth.provider
        ELSE [type |-> Undefined]]

\* a promise that nobody has settled yet
Pending == [state |-> "pending", value |-> Undefined]

\* a call http() has not been asked for yet
Idle ==
    [pc |-> "idle",
     options |-> [uri |-> "", qs |-> <<>>, baseUrl |-> "", auth |-> Undefined,
                  noAuth |-> FALSE, stream |-> FALSE],
     wire |-> <<>>,          \* the HTTP requests sent, in order
     answers |-> <<>>,       \* what request() handed to the callbacks of _request, in order
     streamed |-> <<>>,      \* what the stream returned for options.stream delivered
     refreshes |-> 0,        \* invocations of refreshAuth
     cbs |-> 0,              \* invocations of the callback http() hands to _request
     promise |-> Pending,    \* the promise http() returned
     thrown |-> FALSE,       \* an exception left the callback uncaught
     ws |-> [state |-> "none", url |-> Undefined, authorization |-> Undefined,
             frames |-> <<>>,      \* what the socket delivered, in order
             messages |-> <<>>]]   \* the const messages of upgradeRequest

Init ==
    /\ \E a \in ConvertedAuths :
          LET made == Constructor([url |-> "https://kube", auth |-> a])
          IN  /\ requestOptions = made.requestOptions
              /\ authProvider = made.authProvider
    /\ calls = [c \in Calls |-> Idle]

(***************************************************************************)
(* What the transport, the provider and the socket can deliver.            *)
(***************************************************************************)
Sentinel ==
    Obj([status |-> Str("Failure"), code |-> Num(400),
         message |-> Str("Upgrade request required")])

Unauthorized ==
    Obj([status |-> Str("Failure"), code |-> Num(401), message |-> Str("Unauthorized")])

TransportError == [err |-> TRUE, statusCode |-> 0, body |-> Undefined]

Reply(status, body) == [err |-> FALSE, statusCode |-> status, body |-> body]

\* the answers of request(options, callback): (err) or (null, res, body)
Responses ==
    { TransportError,
      Reply(200, Obj([kind |-> Str("Pod")])),
      Reply(401, Unauthorized),
      Reply(403, Undefined),
      Reply(500, Str("Internal Server Error")),
      Reply(401, Sentinel) }

\* the tokens provider.refresh can yield to the refresh of call c: the
\* provider hands out a new token every time, told apart here by the call
Tokens(c) == {c}


\* the option objects callers pass to http()
ExecQs == << [key |-> "command", value |-> <<"ls", "-l">>], [key |-> "stdout", value |-> <<"true">>] >>

HttpOptions ==
    { [pathname |-> "/api/v1/pods", qs |-> <<>>, noAuth |-> FALSE, stream |-> FALSE],
      [pathname |-> "/exec", qs |-> ExecQs, noAuth |-> TRUE, stream |-> FALSE],
      [pathname |-> "/log", qs |-> <<>>, noAuth |-> FALSE, stream |-> TRUE] }

(***************************************************************************)
(* http() and its callback (lines 210-240).                                *)
(***************************************************************************)
Error(name) == [t |-> "error", name |-> name]

\* resolve / reject of a promise: only the first one settles it
Settle(promise, state, value) ==
    IF promise.state = "pending" THEN [state |-> state, value |-> value] ELSE promise

\* the callback of lines 228-238, called with (err, res).  A res without a
\* statusCode (the result of a closed socket) compares false with both
\* limits.  Reading res.body.message of an undefined body throws a TypeError
\* out of the callback: nothing settles the promise.
Callback_NoErrCheck(call, err, res) ==
    LET counted == [call EXCEPT !.cbs = @ + 1]
    IN  IF err # Undefined \/ res.body = Undefined
        THEN [counted EXCEPT !.thrown = TRUE]
        ELSE IF res.t = "response" /\ (res.statusCode < 200 \/ res.statusCode > 299)
        THEN [counted EXCEPT !.promise =
                 Settle(@, "rejected",
                        [t |-> "error", name |-> "Error",
                         message |-> IF Truthy(Prop(res.body, "message"))
                                     THEN Prop(res.body, "message")
                                     ELSE res.body,
                         code |-> res.statusCode,
                         statusCode |-> res.statusCode])]
        ELSE [counted EXCEPT !.promise = Settle(@, "resolved", res)]

Callback(call, err, res) ==
    LET counted == [call EXCEPT !.cbs = @ + 1]
    IN  IF err # Undefined
        THEN [counted EXCEPT !.promise = Settle(@, "rejected", err)]
        ELSE IF res.t = "response" /\ (res.statusCode < 200 \/ res.statusCode > 299)
        THEN IF res.body = Undefined
             THEN [counted EXCEPT !.thrown = TRUE]
             ELSE [counted EXCEPT !.promise =
                      Settle(@, "rejected",
                             [t |-> "error", name |-> "Error",
                              message |-> IF Truthy(Prop(res.body, "message"))
                                          THEN Prop(res.body, "message")
                                          ELSE res.body,
                              code |-> res.statusCode,
                              statusCode |-> res.statusCode])]
        ELSE [counted EXCEPT !.promise = Settle(@, "resolved", res)]

\* { statusCode: res.statusCode, body } (lines 162, 168)
Result(r) == [t |-> "response", statusCode |-> r.statusCode, body |-> r.body]

\* what one request puts on the wire
Sent(options) == [uri |-> options.uri, qs |-> options.qs, auth |-> options.auth]

Http_IgnoresStream(c, options) ==
    /\ calls[c].pc = "idle"
    /\ c > 1 => calls[c - 1].pc # "idle"
    /\ LET ro == [uri |-> options.pathname,
                  qs |-> options.qs,
                  baseUrl |-> requestOptions.baseUrl,
                  auth |-> IF options.noAuth THEN Undefined ELSE requestOptions.auth,
                  noAuth |-> options.noAuth,
                  stream |-> options.stream]
       IN  calls' = [calls EXCEPT ![c] =
                [@ EXCEPT !.pc = "request",
                          !.options = ro,
                          !.wire = <<Sent(ro)>>,
                          !.promise = Pending]]
    /\ UNCHANGED <<requestOptions, authProvider>>

\* http(options): lines 210-226.  Calls are numbered in the order they are made.
Http(c, options) ==
    /\ calls[c].pc = "idle"
    /\ c > 1 => calls[c - 1].pc # "idle"
    /\ LET ro == [uri |-> options.pathname,
                  qs |-> options.qs,
                  baseUrl |-> requestOptions.baseUrl,
                  auth |-> IF options.noAuth THEN Undefined ELSE requestOptions.auth,
                  noAuth |-> options.noAuth,
                  stream |-> options.stream]
       IN  calls' = [calls EXCEPT ![c] =
                [@ EXCEPT !.pc = IF options.stream THEN "stream" ELSE "request",
                          !.options = ro,
                          !.wire = <<Sent(ro)>>,
                          !.promise = IF options.stream
                                      THEN [state |-> "stream", value |-> Undefined]
                                      ELSE Pending]]
    /\ UNCHANGED <<requestOptions, authProvider>>

\* the stream returned for options.stream answers; no code of this file looks at it
StreamResponse(c, r) ==
    /\ calls[c].pc = "stream"
    /\ calls' = [calls EXCEPT ![c].pc = "done", ![c].streamed = Append(@, r)]
    /\ UNCHANGED <<requestOptions, authProvider>>

(***************************************************************************)
(* _request (lines 145-170).                                               *)
(***************************************************************************)
Upgrade_StoredCredential(call) ==
    [call EXCEPT !.pc = "ws",
                 !.ws = [state |-> "open", url |-> wsUrl(call.options),
                         authorization |->
                             authorization([call.options EXCEPT !.auth = requestOptions.auth]),
                         frames |-> <<>>, messages |-> <<>>]]

\* upgradeRequest(options, cb), lines 62-73: the socket is opened
Upgrade(call) ==
    [call EXCEPT !.pc = "ws",
                 !.ws = [state |-> "open", url |-> wsUrl(call.options),
                         authorization |-> authorization(call.options),
                         frames |-> <<>>, messages |-> <<>>]]

FirstAnswer_AuthFirst(call, r) ==
    IF (r.statusCode = 401 \/ r.statusCode = 403) /\ Truthy(authProvider.type)
    THEN [call EXCEPT !.pc = "refreshAuth", !.refreshes = @ + 1]
    ELSE IF Truthy(r.body) /\ isUpgradeRequired(r.body)
    THEN Upgrade(call)
    ELSE Callback([call EXCEPT !.pc = "done"], Undefined, Result(r))

\* the decision the first callback takes on (res, body), lines 150-168
FirstAnswer(call, r) ==
    IF Truthy(r.body) /\ isUpgradeRequired(r.body)
    THEN Upgrade(call)
    ELSE IF (r.statusCode = 401 \/ r.statusCode = 403) /\ Truthy(authProvider.type)
    THEN [call EXCEPT !.pc = "refreshAuth", !.refreshes = @ + 1]
    ELSE Callback([call EXCEPT !.pc = "done"], Undefined, Result(r))

\* the callback of the first request, lines 147-169
Response(c, r) ==
    /\ calls[c].pc = "request"
    /\ calls' = [calls EXCEPT ![c] =
          LET call == [@ EXCEPT !.answers = Append(@, r)]
          IN  IF r.err
              THEN Callback([call EXCEPT !.pc = "done"], Error("TransportError"), Undefined)
              ELSE FirstAnswer(call, r)]
    /\ UNCHANGED <<requestOptions, authProvider>>

RefreshResolved_FirstWins(c, token) ==
    /\ calls[c].pc = "refreshAuth"
    /\ LET newAuth == Auth(token)
       IN  /\ requestOptions' =
                 IF requestOptions.auth = calls[c].wire[1].auth
                 THEN [requestOptions EXCEPT !.auth = newAuth]
                 ELSE requestOptions
           /\ calls' = [calls EXCEPT ![c] =
                 [@ EXCEPT !.pc = "retry",
                           !.options.auth = newAuth,
                           !.wire = Append(@, Sent([calls[c].options EXCEPT !.auth = newAuth]))]]
    /\ UNCHANGED authProvider

RefreshResolved_CallOnly(c, token) ==
    /\ calls[c].pc = "refreshAuth"
    /\ LET newAuth == Auth(token)
       IN  calls' = [calls EXCEPT ![c] =
                 [@ EXCEPT !.pc = "retry",
                           !.options.auth = newAuth,
                           !.wire = Append(@, Sent([calls[c].options EXCEPT !.auth = newAuth]))]]
    /\ UNCHANGED <<requestOptions, authProvider>>

\* refreshAuth resolved with { bearer: result }, lines 22-27 and 157-160:
\* the stored credential and the call's own are replaced, the request re-issued
RefreshResolved(c, token) ==
    /\ calls[c].pc = "refreshAuth"
    /\ LET newAuth == Auth(token)
       IN  /\ requestOptions' = [requestOptions EXCEPT !.auth = newAuth]
           /\ calls' = [calls EXCEPT ![c] =
                 [@ EXCEPT !.pc = "retry",
                           !.options.auth = newAuth,
                           !.wire = Append(@, Sent([calls[c].options EXCEPT !.auth = newAuth]))]]
    /\ UNCHANGED authProvider

RefreshRejected_NoCatch(c) ==
    /\ calls[c].pc = "refreshAuth"
    /\ calls' = [calls EXCEPT ![c].pc = "done"]
    /\ UNCHANGED <<requestOptions, authProvider>>

\* refreshAuth rejected, lines 29 and 165
RefreshRejected(c) ==
    /\ calls[c].pc = "refreshAuth"
    /\ calls' = [calls EXCEPT ![c] =
          Callback([@ EXCEPT !.pc = "done"], Error("RefreshError"), Undefined)]
    /\ UNCHANGED <<requestOptions, authProvider>>

\* the callback of the re-issued request, lines 160-163
SecondAnswer(call, r) ==
    IF r.err
    THEN Callback([call EXCEPT !.pc = "done"], Error("TransportError"), Undefined)
    ELSE Callback([call EXCEPT !.pc = "done"], Undefined, Result(r))

RetryResponse(c, r) ==
    /\ calls[c].pc = "retry"
    /\ calls' = [calls EXCEPT ![c] = SecondAnswer([@ EXCEPT !.answers = Append(@, r)], r)]
    /\ UNCHANGED <<requestOptions, authProvider>>

(***************************************************************************)
(* The socket's events (lines 75-91).                                      *)
(***************************************************************************)
WsMessage_Dedup(c, msg) ==
    /\ calls[c].pc = "ws"
    /\ calls[c].ws.state = "open"
    /\ Len(calls[c].ws.messages) < MaxFrames
    /\ calls' = [calls EXCEPT ![c].ws.frames = Append(@, msg),
                              ![c].ws.messages =
                                  IF @ # <<>> /\ @[Len(@)] = Decode(msg)
                                  THEN @ ELSE Append(@, Decode(msg))]
    /\ UNCHANGED <<requestOptions, authProvider>>

\* ws.on('message'), lines 75-79
WsMessage(c, msg) ==
    /\ calls[c].pc = "ws"
    /\ calls[c].ws.state = "open"
    /\ Len(calls[c].ws.messages) < MaxFrames
    /\ calls' = [calls EXCEPT ![c].ws.frames = Append(@, msg),
                              ![c].ws.messages = Append(@, Decode(msg))]
    /\ UNCHANGED <<requestOptions, authProvider>>

WsError_NoLog(c) ==
    /\ calls[c].pc = "ws"
    /\ calls[c].ws.state = "open"
    /\ calls' = [calls EXCEPT ![c] =
          Callback([@ EXCEPT !.ws.state = "errored"],
                   [t |-> "error", name |-> "SocketError", messages |-> <<>>],
                   Undefined)]
    /\ UNCHANGED <<requestOptions, authProvider>>

\* ws.on('error'), lines 81-84: err.messages = messages; cb(err, messages)
WsError(c) ==
    /\ calls[c].pc = "ws"
    /\ calls[c].ws.state = "open"
    /\ calls' = [calls EXCEPT ![c] =
          Callback([@ EXCEPT !.ws.state = "errored"],
                   [t |-> "error", name |-> "SocketError", messages |-> @.ws.messages],
                   Undefined)]
    /\ UNCHANGED <<requestOptions, authProvider>>

WsClose_CodeAsStatus(c, code) ==
    /\ calls[c].pc = "ws"
    /\ calls[c].ws.state \in {"open", "errored"}
    /\ calls' = [calls EXCEPT ![c] =
          Callback([@ EXCEPT !.pc = "done", !.ws.state = "closed"],
                   Undefined,
                   [t |-> "response",
                    statusCode |-> code,
                    messages |-> @.ws.messages,
                    body |-> Str("session"),
                    code |-> code,
                    reason |-> ""])]
    /\ UNCHANGED <<requestOptions, authProvider>>

\* ws.on('close'), lines 86-91; ws emits close after an error as well
WsClose(c, code) ==
    /\ calls[c].pc = "ws"
    /\ calls[c].ws.state \in {"open", "errored"}
    /\ calls' = [calls EXCEPT ![c] =
          Callback([@ EXCEPT !.pc = "done", !.ws.state = "closed"],
                   Undefined,
                   [t |-> "session",
                    messages |-> @.ws.messages,
                    body |-> JoinMessages(@.ws.messages),
                    code |-> code,
                    reason |-> ""])]
    /\ UNCHANGED <<requestOptions, authProvider>>

\* frames the socket delivers: text frames (strings) and binary frames (Buffers);
\* the data is the channel character followed by base64 text
Frame(binary, data) == [binary |-> binary, data |-> data]

\* the frame and the close code the sockets of concurrent calls see:
\* the text frame '1' + "YQ==" (stdout, "a"), a normal closure
Frames == { Frame(FALSE, <<49, 89, 81, 61, 61>>) }

CloseCodes == {1000}

Next ==
    \/ \E c \in Calls, o \in HttpOptions : Http(c, o)
    \/ \E c \in Calls, r \in Responses : StreamResponse(c, r)
    \/ \E c \in Calls, r \in Responses : Response(c, r)
    \/ \E c \in Calls : \E token \in Tokens(c) : RefreshResolved(c, token)
    \/ \E c \in Calls : RefreshRejected(c)
    \/ \E c \in Calls, r \in Responses : RetryResponse(c, r)
    \/ \E c \in Calls, msg \in Frames : WsMessage(c, msg)
    \/ \E c \in Calls : WsError(c)
    \/ \E c \in Calls, code \in CloseCodes : WsClose(c, code)

Spec == Init /\ [][Next]_vars

(***************************************************************************)
(* One call that the server asks to upgrade, with the frames and close     *)
(* codes a socket can deliver.                                             *)
(***************************************************************************)
\* a call that carries the connection's credential and array-valued parameters
SessionOptions ==
    HttpOptions \cup
    { [pathname |-> "/exec", qs |-> ExecQs, noAuth |-> FALSE, stream |-> FALSE] }

SessionResponses == { Reply(400, Sentinel), Reply(401, Sentinel) }

\* text frames: '1' "aGk=" (stdout "hi"), '2' "Yg==" (stderr "b"),
\* '0' "YQ==" (stdin "a"), '3' "ZQ==" (error "e"), '4' "cg==" (resize "r"),
\* '9' "YQ==" (no such channel), the byte 0x01 followed by "YQ==";
\* a binary frame: '1' "YQ==" delivered as a Buffer
SessionFrames ==
    { Frame(FALSE, <<49, 97, 71, 107, 61>>),
      Frame(FALSE, <<50, 89, 103, 61, 61>>),
      Frame(FALSE, <<48, 89, 81, 61, 61>>),
      Frame(FALSE, <<51, 90, 81, 61, 61>>),
      Frame(FALSE, <<52, 99, 103, 61, 61>>),
      Frame(FALSE, <<57, 89, 81, 61, 61>>),
      Frame(FALSE, <<1, 89, 81, 61, 61>>),
      Frame(TRUE, <<49, 89, 81, 61, 61>>) }

SessionCloseCodes == {1000, 1006}

SessionNext ==
    \/ \E o \in SessionOptions : ~o.stream /\ Http(1, o)
    \/ \E r \in SessionResponses : Response(1, r)
    \/ \E msg \in SessionFrames : WsMessage(1, msg)
    \/ WsError(1)
    \/ \E code \in SessionCloseCodes : WsClose(1, code)

SessionSpec == Init /\ [][SessionNext]_vars

(***************************************************************************)
(* Properties.                                                             *)
(***************************************************************************)
Last(seq) == seq[Len(seq)]

\* an answer with HTTP status 401 or 403
AuthFailure(r) == ~r.err /\ r.statusCode \in {401, 403}

\* an answer whose body is the upgrade sentinel, field by field
IsSentinel(r) ==
    /\ ~r.err
    /\ r.body.t = "object"
    /\ DOMAIN r.body.f = {"status", "code", "message"}
    /\ r.body.f.status = Str("Failure")
    /\ r.body.f.code = Num(400)
    /\ r.body.f.message = Str("Upgrade request required")

RefreshConfigured == authProvider.type # Undefined

\* C1: a call made with noAuth carries no credential on any request it
\* sends: not on the first, not on the re-issued one, not in the
\* authorization header of the upgraded socket.
C1_NoAuthCarriesNoCredential ==
    \A c \in Calls :
        calls[c].options.noAuth =>
            /\ \A i \in 1..Len(calls[c].wire) : calls[c].wire[i].auth = Undefined
            /\ calls[c].ws.state # "none" =>
                  calls[c].ws.authorization.token = Str("undefined")

\* C2: within one call refreshAuth is invoked at most once and at most two
\* requests are sent, and when the re-issued request answers 401 or 403
\* again the call is over and its promise rejected.
C2_OneRefreshThenRejected ==
    \A c \in Calls :
        /\ calls[c].refreshes <= 1
        /\ Len(calls[c].wire) <= 2
        /\ (Len(calls[c].answers) = 2 /\ AuthFailure(calls[c].answers[2])) =>
              /\ calls[c].pc = "done"
              /\ calls[c].promise.state = "rejected"

\* C3: when the refresh after a 401/403 succeeds, the stored credential and
\* the credential of the re-issued request both become the refreshed value;
\* when the re-issued request then answers 200 the promise resolves with
\* that answer and, no other call having refreshed, the stored credential is
\* still the refreshed value; and every call made without noAuth carries
\* the credential stored at the time it is made.
C3_RefreshedCredentialStoredAndUsed ==
    [][\A c \in Calls :
          /\ (calls[c].pc = "refreshAuth" /\ calls'[c].pc = "retry") =>
                /\ AuthFailure(calls[c].answers[1])
                /\ requestOptions'.auth \in {Auth(token) : token \in Tokens(c)}
                /\ calls'[c].options.auth = requestOptions'.auth
                /\ Len(calls'[c].wire) = 2
                /\ calls'[c].wire[2].auth = requestOptions'.auth
                /\ calls'[c].wire[2].uri = calls[c].wire[1].uri
                /\ calls'[c].wire[2].qs = calls[c].wire[1].qs
          /\ (calls[c].pc = "retry" /\ calls'[c].pc = "done"
                /\ ~Last(calls'[c].answers).err
                /\ Last(calls'[c].answers).statusCode = 200) =>
                /\ calls'[c].promise.state = "resolved"
                /\ calls'[c].promise.value.t = "response"
                /\ calls'[c].promise.value.statusCode = 200
                /\ calls'[c].promise.value.body = Last(calls'[c].answers).body
                /\ (\A d \in Calls \ {c} : Len(calls[d].wire) < 2) =>
                      requestOptions'.auth = calls[c].wire[2].auth
          /\ (calls[c].pc = "idle" /\ calls'[c].pc # "idle"
                /\ ~calls'[c].options.noAuth) =>
                calls'[c].wire = <<[uri |-> calls'[c].options.uri,
                                    qs |-> calls'[c].options.qs,
                                    auth |-> requestOptions.auth]>>
      ]_vars

\* a call was refreshed after a 401 and resolved with 200, the stored
\* credential is its refreshed one, and a later call carries it
C3_Witness ==
    \E c, d \in Calls :
        /\ c # d
        /\ Len(calls[c].answers) = 2
        /\ calls[c].answers[1].statusCode = 401
        /\ calls[c].promise.state = "resolved"
        /\ calls[c].promise.value.statusCode = 200
        /\ requestOptions.auth = calls[c].wire[2].auth
        /\ calls[d].pc = "request"
        /\ calls[d].wire[1].auth = calls[c].wire[2].auth

\* C4: every answer whose body is the upgrade sentinel, the answer to the
\* re-issued request included, opens a socket for the path and the query
\* parameters of the call.
C4_SentinelAlwaysUpgrades ==
    \A c \in Calls :
        \A i \in 1..Len(calls[c].answers) :
            IsSentinel(calls[c].answers[i]) =>
                /\ calls[c].ws.state # "none"
                /\ calls[c].ws.url.path = calls[c].wire[1].uri
                /\ calls[c].ws.url.query = stringify(calls[c].wire[1].qs)

\* C5: a first answer that is the upgrade sentinel and has status 401 or 403,
\* on a connection with a refresh configured, opens the socket; refreshAuth
\* is never invoked for the call, no request is re-issued, and the step
\* leaves the stored credential as it was.
C5_UpgradeBeforeAuthRetry ==
    [][\A c \in Calls :
          LET first == calls'[c].answers[1]
          IN  (/\ RefreshConfigured
               /\ Len(calls'[c].answers) >= 1
               /\ IsSentinel(first)
               /\ AuthFailure(first)) =>
                 /\ calls'[c].ws.state # "none"
                 /\ calls'[c].refreshes = 0
                 /\ Len(calls'[c].wire) = 1
                 /\ Len(calls'[c].answers) = 1
                 /\ calls'[c].options.auth = calls'[c].wire[1].auth
                 /\ Len(calls[c].answers) = 0 =>
                       /\ requestOptions' = requestOptions
                       /\ calls'[c].ws.state = "open"
      ]_vars

\* the sentinel came with status 401 on a connection with a refresh
\* configured, and the socket is open
C5_Witness ==
    \E c \in Calls :
        /\ RefreshConfigured
        /\ calls[c].answers = <<Reply(401, Sentinel)>>
        /\ calls[c].ws.state = "open"
        /\ calls[c].refreshes = 0

\* C6: a transport error, on the first request or on the re-issued one, ends
\* the call with its promise rejected with that error; the step invokes no
\* refresh, sends no request and leaves the stored credential alone, and
\* nothing happens in the call afterwards.
C6_TransportErrorRejectsAtOnce ==
    [][\A c \in Calls :
          /\ (Len(calls'[c].answers) = Len(calls[c].answers) + 1
                /\ Last(calls'[c].answers).err) =>
                /\ calls'[c].pc = "done"
                /\ calls'[c].promise =
                      [state |-> "rejected", value |-> Error("TransportError")]
                /\ calls'[c].cbs = 1
                /\ ~calls'[c].thrown
                /\ calls'[c].refreshes = calls[c].refreshes
                /\ calls'[c].wire = calls[c].wire
                /\ calls'[c].ws = calls[c].ws
                /\ requestOptions' = requestOptions
          /\ (Len(calls[c].answers) >= 1 /\ Last(calls[c].answers).err) =>
                calls'[c] = calls[c]
      ]_vars

\* on a connection whose earlier call met a 401 and refreshed, a later call
\* is rejected by a transport error on its first request without a refresh;
\* and a call is rejected by a transport error on its re-issued request
C6_Witness ==
    \E c, d \in Calls :
        /\ RefreshConfigured
        /\ calls[d].refreshes = 1
        /\ Len(calls[d].answers) = 2
        /\ Last(calls[d].answers).err
        /\ calls[d].promise = [state |-> "rejected", value |-> Error("TransportError")]
        /\ calls[c].answers = <<TransportError>>
        /\ calls[c].wire[1].auth = calls[d].wire[2].auth
        /\ calls[c].refreshes = 0
        /\ calls[c].promise = [state |-> "rejected", value |-> Error("TransportError")]

\* the answer that ended a call in _request: the last one, when the call is
\* over and was not handed to a socket
FinalAnswer(c) ==
    /\ calls[c].pc = "done"
    /\ calls[c].ws.state = "none"
    /\ Len(calls[c].answers) >= 1
    /\ ~Last(calls[c].answers).err

\* C7: a final answer with a status outside [200,299] that is not the upgrade
\* sentinel rejects the promise with an error whose code and statusCode are
\* that status, whatever the body, a missing body included; a final answer
\* with a status inside [200,299] resolves it with {statusCode, body}.
C7_StatusDecidesOutcome ==
    \A c \in Calls :
        FinalAnswer(c) =>
            LET r == Last(calls[c].answers)
            IN  IF r.statusCode >= 200 /\ r.statusCode <= 299
                THEN calls[c].promise = [state |-> "resolved", value |-> Result(r)]
                ELSE ~IsSentinel(r) =>
                        /\ calls[c].promise.state = "rejected"
                        /\ calls[c].promise.value.code = r.statusCode
                        /\ calls[c].promise.value.statusCode = r.statusCode

\* C8: with no refresh configured, a 401 or 403 answer (not the upgrade
\* sentinel) ends the call after its one request, without a refresh, its
\* promise rejected with an error carrying that status.
C8_NoProviderAuthFailureRejected ==
    \A c \in Calls :
        (/\ ~RefreshConfigured
         /\ Len(calls[c].answers) >= 1
         /\ AuthFailure(calls[c].answers[1])
         /\ ~IsSentinel(calls[c].answers[1])) =>
            /\ calls[c].refreshes = 0
            /\ Len(calls[c].wire) = 1
            /\ calls[c].pc = "done"
            /\ calls[c].promise.state = "rejected"
            /\ calls[c].promise.value.statusCode = calls[c].answers[1].statusCode

\* the first byte of a frame names a channel, read as a number 0..4 or as a
\* digit '0'..'4'
InRange(frame) ==
    /\ Len(frame.data) >= 1
    /\ \/ frame.data[1] \in 0..4
       \/ frame.data[1] \in 48..52

\* C9: a frame whose first byte names no channel adds no entry to the
\* message log: the log has one entry per frame that names a channel.
C9_OutOfRangeFrameDropped ==
    \A c \in Calls :
        Len(calls[c].ws.messages) =
            Cardinality({i \in 1..Len(calls[c].ws.frames) : InRange(calls[c].ws.frames[i])})

\* what the base64 texts used in the frames stand for, from RFC 4648:
\* "aGk=" is "hi", "Yg==" is "b", "YQ==" is "a", "ZQ==" is "e", "cg==" is "r"
PlainText(payload) ==
    CASE payload = <<97, 71, 107, 61>> -> <<104, 105>>
      [] payload = <<89, 103, 61, 61>> -> <<98>>
      [] payload = <<89, 81, 61, 61>>  -> <<97>>
      [] payload = <<90, 81, 61, 61>>  -> <<101>>
      [] payload = <<99, 103, 61, 61>> -> <<114>>

ChannelNames == <<"stdin", "stdout", "stderr", "error", "resize">>

RECURSIVE NonControlText(_)
NonControlText(messages) ==
    IF messages = <<>> THEN <<>>
    ELSE (IF Head(messages).channel \in {Str("error"), Str("resize")}
          THEN <<>> ELSE Head(messages).message)
         \o NonControlText(Tail(messages))

\* the result a closed socket resolved the promise of call c with
SessionResult(c) ==
    /\ calls[c].promise.state = "resolved"
    /\ calls[c].promise.value.t = "session"

\* C11: the result of a closed session carries the whole message log, the
\* close code and reason, and as body the text of the entries of the
\* non-control channels only, joined in arrival order; entries of the
\* channels error and resize are not part of the body.
C11_BodyLeavesOutControlChannels ==
    \A c \in Calls :
        SessionResult(c) =>
            /\ calls[c].promise.value.messages = calls[c].ws.messages
            /\ calls[c].promise.value.code \in SessionCloseCodes
            /\ calls[c].promise.value.body = NonControlText(calls[c].ws.messages)

\* C12: a call made with the stream flag gets the stream handle at once and
\* none of the decisions of _request is ever taken for it: whatever the
\* stream delivers, no callback runs, no refresh is invoked, no second
\* request is sent, no socket is opened and the stored credential stays.
C12_StreamBypassesDispatcher ==
    [][\A c \in Calls :
          calls'[c].options.stream =>
              /\ calls'[c].pc \in {"stream", "done"}
              /\ calls'[c].promise = [state |-> "stream", value |-> Undefined]
              /\ calls'[c].refreshes = 0
              /\ Len(calls'[c].wire) = 1
              /\ calls'[c].answers = <<>>
              /\ calls'[c].cbs = 0
              /\ ~calls'[c].thrown
              /\ calls'[c].ws.state = "none"
              /\ calls'[c].streamed # calls[c].streamed =>
                    requestOptions' = requestOptions
      ]_vars

\* on a connection with a refresh configured a stream delivered a 401 that
\* is also the upgrade sentinel, and the call is over
C12_Witness ==
    \E c \in Calls :
        /\ RefreshConfigured
        /\ calls[c].options.stream
        /\ calls[c].streamed = <<Reply(401, Sentinel)>>
        /\ calls[c].pc = "done"
        /\ calls[c].refreshes = 0

\* the entry a frame stands for: the channel its first character names and
\* the text of what follows (the bytes themselves for a Buffer)
ExpectedEntry(frame) ==
    [channel |-> IF frame.data[1] \in 48..52
                 THEN Str(ChannelNames[frame.data[1] - 47])
                 ELSE Undefined,
     message |-> IF frame.binary
                 THEN SubSeq(frame.data, 2, Len(frame.data))
                 ELSE PlainText(SubSeq(frame.data, 2, Len(frame.data)))]

ExpectedLog(frames) == [i \in 1..Len(frames) |-> ExpectedEntry(frames[i])]

\* the socket of call c has emitted error
SocketErrored(c) ==
    \/ calls[c].ws.state = "errored"
    \/ calls[c].ws.state = "closed" /\ calls[c].cbs = 2

\* C13: once the socket has emitted error the promise of the call is
\* rejected with that error, and the error carries the entries of exactly
\* the frames delivered before it, in arrival order.
C13_SocketErrorCarriesLog ==
    \A c \in Calls :
        SocketErrored(c) =>
            /\ calls[c].promise.state = "rejected"
            /\ calls[c].promise.value.name = "SocketError"
            /\ calls[c].promise.value.messages = ExpectedLog(calls[c].ws.frames)

\* the socket failed after the frames '2' "Yg==" and '1' "aGk="
C13_Witness ==
    \E c \in Calls :
        /\ calls[c].ws.state = "errored"
        /\ calls[c].promise.state = "rejected"
        /\ calls[c].promise.value.messages =
              << [channel |-> Str("stderr"), message |-> <<98>>],
                 [channel |-> Str("stdout"), message |-> <<104, 105>>] >>

\* C14: when the refresh a 401/403 set off fails, the call ends with its
\* promise rejected with the refresh error; the step sends no request,
\* invokes no further refresh and leaves the stored credential as it was,
\* and the call does nothing afterwards.
C14_RefreshFailureRejects ==
    [][\A c \in Calls :
          /\ (calls[c].pc = "refreshAuth" /\ calls'[c] # calls[c]
                /\ calls'[c].pc # "retry") =>
                /\ calls'[c].pc = "done"
                /\ calls'[c].promise =
                      [state |-> "rejected", value |-> Error("RefreshError")]
                /\ calls'[c].cbs = 1
                /\ calls'[c].refreshes = 1
                /\ calls'[c].wire = calls[c].wire
                /\ Len(calls'[c].wire) = 1
                /\ calls'[c].options = calls[c].options
                /\ requestOptions' = requestOptions
          /\ (calls[c].pc = "done" /\ calls[c].refreshes = 1
                /\ Len(calls[c].wire) = 1) =>
                calls'[c] = calls[c]
      ]_vars

\* a refresh failed on a connection that still stores its first credential
C14_Witness ==
    \E c \in Calls :
        /\ calls[c].pc = "done"
        /\ calls[c].refreshes = 1
        /\ Len(calls[c].wire) = 1
        /\ calls[c].promise = [state |-> "rejected", value |-> Error("RefreshError")]
        /\ requestOptions.auth = Auth(0)

\* C15: the stored credential changes only in the step in which a refresh
\* completes successfully, and that step stores the value this refresh
\* returned whatever was stored before: of two calls that both refresh, the
\* one whose refresh completes last decides the stored credential.
C15_OnlyRefreshWritesLastWins ==
    [][/\ requestOptions' # requestOptions =>
             /\ requestOptions'.baseUrl = requestOptions.baseUrl
             /\ \E c \in Calls :
                   calls[c].pc = "refreshAuth" /\ calls'[c].pc = "retry"
       /\ \A c \in Calls :
             (calls[c].pc = "refreshAuth" /\ calls'[c].pc = "retry") =>
                 /\ requestOptions'.auth \in {Auth(token) : token \in Tokens(c)}
                 /\ requestOptions'.auth = calls'[c].wire[2].auth
       /\ authProvider' = authProvider
      ]_vars

\* both calls refreshed; the refresh of the call made first completed last
\* and its value is the one stored
C15_Witness ==
    /\ Len(calls[1].wire) = 2
    /\ Len(calls[2].wire) = 2
    /\ calls[1].wire[2].auth = Auth(1)
    /\ calls[2].wire[2].auth = Auth(2)
    /\ calls[2].wire[1].auth = Auth(0)
    /\ requestOptions.auth = Auth(1)

\* the authorization header that presents credential auth
BearerOf(auth) ==
    [scheme |-> "Bearer",
     token |-> IF auth = Undefined THEN Str("undefined") ELSE Num(auth.bearer)]

\* the step in which the socket of call c is opened
Opens(c) == calls[c].ws.state = "none" /\ calls'[c].ws.state = "open"

\* C16 as stated: the header sent when the socket of a call (made without
\* noAuth) is opened presents the credential the connection stores at that
\* moment.
C16_HeaderFromStoredCredential ==
    [][\A c \in Calls :
          (Opens(c) /\ ~calls[c].options.noAuth) =>
              calls'[c].ws.authorization = BearerOf(requestOptions.auth)
      ]_vars

\* C16 (amended): the header sent when the socket of a call is opened
\* presents the credential the call's own request carried, the one stored
\* when the call was made (none for noAuth), also when another call has
\* replaced the stored credential since.
C16_HeaderFromCallCredential ==
    [][\A c \in Calls :
          Opens(c) =>
              /\ Len(calls[c].wire) = 1
              /\ calls'[c].ws.authorization = BearerOf(calls[c].wire[1].auth)
      ]_vars

\* a socket was opened with the first credential after another call's
\* refresh had replaced the stored one
C16_Witness ==
    \E c, d \in Calls :
        /\ c # d
        /\ calls[c].ws.state = "open"
        /\ calls[c].ws.authorization.token = Num(0)
        /\ Len(calls[d].wire) = 2
        /\ calls[d].wire[1].auth = Auth(0)
        /\ calls[d].pc = "retry"
        /\ requestOptions.auth = calls[d].wire[2].auth
        /\ requestOptions.auth # Auth(0)

\* C17: the message log is, at every moment, the entries of the frames the
\* socket delivered, one per frame and in arrival order (equal frames give
\* equal entries, each kept); a step either leaves the log alone or adds one
\* entry at its end; and the log handed over at close or at error is this
\* same sequence.
C17_LogOnlyAppends ==
    [][\A c \in Calls :
          LET old == calls[c].ws.messages
              new == calls'[c].ws.messages
          IN  /\ new = ExpectedLog(calls'[c].ws.frames)
              /\ \/ new = old
                 \/ Len(new) = Len(old) + 1 /\ SubSeq(new, 1, Len(old)) = old
              /\ (calls'[c].ws.state # "none" /\ calls'[c].promise.state # "pending") =>
                    calls'[c].promise.value.messages = new
      ]_vars

\* the same frame came twice, the log has both entries and the closed
\* session handed them over
C17_Witness ==
    \E c \in Calls :
        /\ Len(calls[c].ws.frames) = 2
        /\ calls[c].ws.frames[1] = calls[c].ws.frames[2]
        /\ Len(calls[c].ws.messages) = 2
        /\ calls[c].ws.messages[1] = calls[c].ws.messages[2]
        /\ calls[c].promise.state = "resolved"
        /\ calls[c].promise.value.messages = calls[c].ws.messages

\* C18: over any sequence of socket events the callback of an upgraded call
\* is invoked at most once, and once the promise is settled its outcome
\* never changes.
C18_CallbackAtMostOnce ==
    [][\A c \in Calls :
          calls'[c].ws.state # "none" =>
              /\ calls'[c].cbs <= 1
              /\ calls[c].promise.state # "pending" =>
                    calls'[c].promise = calls[c].promise
      ]_vars

\* C19: a non-stream call that has been handed everything it was waiting for
\* (its last answer, the outcome of its refresh, the close of its socket) has
\* its promise settled, resolved or rejected: no answer leaves it pending.
C19_FinishedCallIsSettled ==
    \A c \in Calls :
        (calls[c].pc = "done" /\ ~calls[c].options.stream) =>
            calls[c].promise.state \in {"resolved", "rejected"}

\* the text of all entries of a log, in order
RECURSIVE AllText(_)
AllText(messages) ==
    IF messages = <<>> THEN <<>> ELSE Head(messages).message \o AllText(Tail(messages))

\* C20: when the socket of an upgraded call closes without having failed,
\* the promise resolves with {messages, body, code, reason} whatever the
\* close code; a close after an error leaves the rejection in place; and an
\* upgraded call is never rejected by anything but a socket error.
C20_CloseAlwaysResolves ==
    [][\A c \in Calls :
          /\ (calls[c].ws.state = "open" /\ calls'[c].ws.state = "closed") =>
                /\ calls'[c].promise.state = "resolved"
                /\ calls'[c].promise.value.t = "session"
                /\ calls'[c].promise.value.messages = calls[c].ws.messages
                /\ calls'[c].promise.value.body = AllText(calls[c].ws.messages)
                /\ calls'[c].promise.value.code \in SessionCloseCodes
                /\ calls'[c].promise.value.reason = ""
          /\ (calls[c].ws.state = "errored" /\ calls'[c].ws.state = "closed") =>
                calls'[c].promise = calls[c].promise
          /\ (calls'[c].ws.state # "none" /\ calls'[c].promise.state = "rejected") =>
                calls'[c].promise.value.name = "SocketError"
      ]_vars

\* a socket closed abnormally (code 1006) after one frame and the call resolved
C20_Witness ==
    \E c \in Calls :
        /\ calls[c].ws.state = "closed"
        /\ calls[c].promise.state = "resolved"
        /\ calls[c].promise.value.code = 1006
        /\ Len(calls[c].promise.value.messages) = 1
        /\ calls[c].cbs = 1

====
